---- MODULE Spec2Model ----
(***************************************************************************)
(* Model of the cfde_client command line (cfde_client/main.py): the four   *)
(* commands run, status, login and logout, the JSON state file they share, *)
(* and the remote client they call.                                        *)
(*                                                                         *)
(* Python values: a str is a sequence of pieces (each piece a TLA+ string; *)
(* paths and user answers are split so that every "/" and every character  *)
(* that strip()/lower() looks at is a piece of its own); None is a value   *)
(* of its own.  A dict is a function from its keys to values.              *)
(***************************************************************************)
EXTENDS Integers, Sequences, FiniteSets, TLC

\* ------------------------------------------------------------------ bounds
\* number of distinct email addresses a user may pass or type
MaxEmails == 2
\* number of distinct successful results the remote service may return
MaxResults == 2

\* ----------------------------------------------------------- Python values
None == [none |-> TRUE, s |-> <<>>]
PyStr(s) == [none |-> FALSE, s |-> s]

\* truth value of `not x` / `x or y` for None and str
Truthy(v) == ~v.none /\ v.s # <<>>

\* `x or y` with the operands exchanged
PyOr_Swapped(a, b) == IF Truthy(b) THEN b ELSE a

EmptyDict == [k \in {} |-> None]
\* x or y
PyOr(a, b) == IF Truthy(a) THEN a ELSE b

\* dict.get(key): None for a missing key
Get(d, k) == IF k \in DOMAIN d THEN d[k] ELSE None
\* an item left as it was when the new value is None
SetItem_SkipNone(d, k, v) ==
    IF v = None THEN d
    ELSE [x \in (DOMAIN d) \cup {k} |-> IF x = k THEN v ELSE d[x]]

\* a dict rebuilt from the one item instead of updated
SetItem_Fresh(d, k, v) == [x \in {k} |-> v]

\* d[key] = value
SetItem(d, k, v) == [x \in (DOMAIN d) \cup {k} |-> IF x = k THEN v ELSE d[x]]

\* --------------------------------------------------------- str operations
IsSpace(c) == c \in {" ", "\t", "\n"}

RECURSIVE LStrip(_)
LStrip(s) == IF s # <<>> /\ IsSpace(Head(s)) THEN LStrip(Tail(s)) ELSE s

RECURSIVE RStrip(_)
RStrip(s) ==
    IF s # <<>> /\ IsSpace(s[Len(s)]) THEN RStrip(SubSeq(s, 1, Len(s) - 1)) ELSE s

\* str.strip()
Strip(s) == RStrip(LStrip(s))

LowerChar(c) ==
    CASE c = "Y" -> "y"
      [] c = "E" -> "e"
      [] c = "S" -> "s"
      [] c = "N" -> "n"
      [] c = "O" -> "o"
      [] OTHER -> c

\* str.lower()
Lower(s) == [i \in 1..Len(s) |-> LowerChar(s[i])]

\* input(...).strip().lower() in ["y", "yes"]
IsYes(raw) == Lower(Strip(raw)) \in {<<"y">>, <<"y", "e", "s">>}

\* p.rfind("/") + 1
RFindSep(p) ==
    IF \E i \in 1..Len(p) : p[i] = "/"
    THEN CHOOSE i \in 1..Len(p) : p[i] = "/" /\ \A j \in (i + 1)..Len(p) : p[j] # "/"
    ELSE 0

RECURSIVE RStripSep(_)
RStripSep(s) ==
    IF s # <<>> /\ s[Len(s)] = "/" THEN RStripSep(SubSeq(s, 1, Len(s) - 1)) ELSE s

\* os.path.dirname
Dirname(p) ==
    LET head == SubSeq(p, 1, RFindSep(p))
    IN  IF head # <<>> /\ \E i \in 1..Len(head) : head[i] # "/"
        THEN RStripSep(head)
        ELSE head

\* os.path.basename
Basename(p) == SubSeq(p, RFindSep(p) + 1, Len(p))

EndsWith(s, suffix) ==
    /\ Len(suffix) <= Len(s)
    /\ SubSeq(s, Len(s) - Len(suffix) + 1, Len(s)) = suffix

\* --------------------------------------------------------------- CONFIG
EP_URL == <<"https://", "ep.example.org">>
EP_UUID == <<"ep-uuid">>

\* the link built from the directory instead of the path
HttpLink_Dir(dest_path) == EP_URL \o Dirname(dest_path)

\* "{}{}".format(CONFIG["EP_URL"], dest_path)
HttpLink(dest_path) == EP_URL \o dest_path

\* "https://app.globus.org/file-manager?origin_id={}&origin_path={}".format(...)
GlobusWebLink(dir_path) ==
    <<"https://app.globus.org/file-manager?origin_id=">> \o EP_UUID
        \o <<"&origin_path=">> \o dir_path

\* ------------------------------------------------------- JSON state file
\* The text of the file is a sequence of tokens, the chunks json.dump writes.
LBrace == <<"{">>
RBrace == <<"}">>
Quote == "\""
NullTok == <<"null">>

KeyTok(k) == <<Quote, k, Quote>>
ValTok(v) == IF v.none THEN NullTok ELSE <<Quote>> \o v.s \o <<Quote>>

\* the order in which a dict's items are written
KeyOrder ==
    <<"author_email", "project", "service_instance", "flow_id",
      "flow_instance_id", "http_link", "globus_web_link">>

Keys == {KeyOrder[i] : i \in 1..Len(KeyOrder)}

RECURSIVE DumpItems(_, _)
DumpItems(d, i) ==
    IF i > Len(KeyOrder) THEN <<>>
    ELSE (IF KeyOrder[i] \in DOMAIN d
          THEN <<KeyTok(KeyOrder[i]), ValTok(d[KeyOrder[i]])>>
          ELSE <<>>) \o DumpItems(d, i + 1)

\* json.dump(state, out): the chunks written, in order
Dump(d) == <<LBrace>> \o DumpItems(d, 1) \o <<RBrace>>

IsStrTok(t) == Len(t) >= 2 /\ t[1] = Quote /\ t[Len(t)] = Quote
IsKeyTok(t) == Len(t) = 3 /\ IsStrTok(t)
IsValTok(t) == t = NullTok \/ IsStrTok(t)

DecodeVal(t) == IF t = NullTok THEN None ELSE PyStr(SubSeq(t, 2, Len(t) - 1))

\* json.load succeeds on this text (an object of string / null members)
Parses(text) ==
    /\ Len(text) >= 2
    /\ text[1] = LBrace
    /\ text[Len(text)] = RBrace
    /\ (Len(text) - 2) % 2 = 0
    /\ \A i \in 1..((Len(text) - 2) \div 2) :
          IsKeyTok(text[2 * i]) /\ IsValTok(text[2 * i + 1])

\* json.load(f): the dict of a text that parses (a repeated key keeps its last value)
Load(text) ==
    LET n == (Len(text) - 2) \div 2
        ks == {text[2 * i][2] : i \in 1..n}
        last(k) == CHOOSE i \in 1..n :
                      /\ text[2 * i][2] = k
                      /\ \A j \in (i + 1)..n : text[2 * j][2] # k
    IN  [k \in ks |-> DecodeVal(text[2 * last(k) + 1])]

\* ------------------------------------------------------------ exceptions
NoExc == [type |-> "none", args |-> <<>>]
\* json.JSONDecodeError, a subclass of ValueError
JSONDecodeError == [type |-> "JSONDecodeError", args |-> <<"Expecting value">>]
FileNotFoundError == [type |-> "FileNotFoundError", args |-> <<"No such file or directory">>]
\* line 159
NoFlowError == [type |-> "ValueError", args |-> <<"flow_id or flow_instance_id not found">>]
UnboundLocalError(name) == [type |-> "UnboundLocalError", args |-> <<name>>]
ClosedFileError == [type |-> "ValueError", args |-> <<"I/O operation on closed file.">>]
KeyboardInterrupt == [type |-> "KeyboardInterrupt", args |-> <<>>]

\* what the remote client raises
InvalidGrant == [type |-> "AuthAPIError", args |-> <<"400", "Error", "invalid_grant">>]
ServerError == [type |-> "AuthAPIError", args |-> <<"500", "Error", "server_error">>]
ConnectionError == [type |-> "ConnectionError", args |-> <<"timed out">>]
RemoteErrors == {InvalidGrant, ServerError, ConnectionError}

\* isinstance(e, ValueError)
IsValueError(e) == e.type \in {"ValueError", "JSONDecodeError"}

\* the test looking only at the number of arguments
IsInvalidGrant_AnyThreeArgs(e) == Len(e.args) >= 3

\* the test looking at the wrong argument
IsInvalidGrant_WrongIndex(e) == Len(e.args) >= 3 /\ e.args[2] = "invalid_grant"

\* len(e.args) >= 3 and e.args[2] == "invalid_grant"
IsInvalidGrant(e) == Len(e.args) >= 3 /\ e.args[3] = "invalid_grant"

\* ------------------------------------------------------------ input sets
Min(a, b) == IF a < b THEN a ELSE b

EmailPool == << <<"a@x">>, <<"b@y">>, <<"c@z">>, <<"d@w">> >>
Emails == {EmailPool[i] : i \in 1..Min(MaxEmails, Len(EmailPool))}

\* what the user may type when asked for an email
TypedEmails == Emails \cup {<<" ">> \o e \o <<" ">> : e \in Emails}

\* what the user may type when asked y/n
Answers == {<<"y">>, <<"Y", "E", "S">>, <<" ", "y", "e", "s", " ">>, <<"n">>, <<"y", "e", "p">>, <<>>}

ServiceInstances == {None, PyStr(<<"dev">>)}

\* successful results of start_deriva_flow
ResultPool ==
    << [flow_id |-> <<"F9">>, flow_instance_id |-> <<"I9">>,
        fair_re_dest_path |-> <<"/", "public", "/", "bag.zip">>],
       [flow_id |-> <<"F2">>, flow_instance_id |-> <<"I2">>,
        fair_re_dest_path |-> <<"/", "bag.zip">>],
       [flow_id |-> <<"F3">>, flow_instance_id |-> <<"I3">>,
        fair_re_dest_path |-> <<"bag.zip">>],
       [flow_id |-> <<"F4">>, flow_instance_id |-> <<"I4">>,
        fair_re_dest_path |-> <<"/", "a", "/", "b", "/", "bag.zip">>] >>
Results == {ResultPool[i] : i \in 1..Min(MaxResults, Len(ResultPool))}

NoResult ==
    [success |-> FALSE, error |-> None, message |-> None,
     fair_re_dest_path |-> None, flow_id |-> None, flow_instance_id |-> None]
FailedResult == [NoResult EXCEPT !.error = PyStr(<<"flow rejected">>)]
DryRunResult == [NoResult EXCEPT !.success = TRUE, !.message = PyStr(<<"dry run ok">>)]
StartedResult(r) ==
    [success |-> TRUE, error |-> None, message |-> PyStr(<<"flow started">>),
     fair_re_dest_path |-> PyStr(r.fair_re_dest_path),
     flow_id |-> PyStr(r.flow_id),
     flow_instance_id |-> PyStr(r.flow_instance_id)]

\* options of `status`
FlowIdOptions == {None, PyStr(<<>>), PyStr(<<"F1">>)}
FlowInstanceIdOptions == {None, PyStr(<<"I1">>)}

NoArgs ==
    [author_email |-> None, dry_run |-> FALSE,
     service_instance |-> None, flow_id |-> None, flow_instance_id |-> None,
     raw |-> FALSE]

\* a remote call: the operation and its two identifying arguments
Call(op, a, b) == [op |-> op, a |-> a, b |-> b]

\* ------------------------------------------------------------------ state
MissingFile == [exists |-> FALSE, text |-> <<>>]
TextFile(text) == [exists |-> TRUE, text |-> text]

VARIABLES
    file,              \* the state file (DEFAULT_STATE_FILE or --client-state-file)
    creds,             \* valid cached credentials exist
    stdin, stdout,     \* what sys.stdin / sys.stdout refer to
    pc,                \* position of the running command; "idle" between commands
    cmd,               \* the command of the current (or last) invocation
    args,              \* its options
    state,             \* run: `state`; status: `client_state`
    author_email,      \* run: local author_email
    save_email,        \* run: local save_email (meaningful when bound)
    flow_id,           \* status: local flow_id
    flow_instance_id,  \* status: local flow_instance_id
    service_instance,  \* status: local service_instance (meaningful when bound)
    bound,             \* names among save_email, service_instance that are assigned
    start_res,         \* run: result of start_deriva_flow
    written,           \* run: chunks json.dump has written so far
    caught,            \* exception being handled / last handled
    raised,            \* exception that left the command
    out,               \* lines printed on the real standard output (those that do
                       \* not depend on --verbose)
    calls,             \* remote calls made by this invocation
    prompts,           \* input() calls made by this invocation
    opens,             \* times this invocation opened the state file for writing
    file0,             \* the state file when this invocation started
    loaded,            \* the record this invocation loaded
    prev,              \* how the previous invocation ended
    other              \* the email another invocation saved while this one ran

envVars == <<file, creds, stdin, stdout>>
runLocals == <<author_email, save_email, start_res, written>>
statusLocals == <<flow_id, flow_instance_id, service_instance>>
histVars == <<file0, loaded, prev, other>>
vars ==
    <<file, creds, stdin, stdout, pc, cmd, args, state, author_email, save_email,
      flow_id, flow_instance_id, service_instance, bound, start_res, written,
      caught, raised, out, calls, prompts, opens, file0, loaded, prev, other>>

\* summary of an invocation, kept for the next one
\* a logout whose client construction raised the invalid grant condition
NoCredentialLogout ==
    /\ cmd = "logout"
    /\ caught = InvalidGrant
    /\ \A i \in 1..Len(calls) : calls[i].op # "logout"

\* the command ended logged out: message printed, nothing raised or revoked,
\* the streams restored
LoggedOutClean ==
    /\ raised = NoExc
    /\ out # <<>> /\ out[Len(out)] = "You are logged out."
    /\ \A i \in 1..Len(calls) : calls[i].op # "logout"
    /\ stdin = "sys.stdin" /\ stdout = "sys.stdout"

\* a run that started a flow and saved the state file
SavedRun == cmd = "run" /\ pc = "idle" /\ opens > 0 /\ raised = NoExc

Summary ==
    [nocreds |-> NoCredentialLogout,
     clean |-> LoggedOutClean,
     saved |-> SavedRun,
     flow_id |-> IF SavedRun THEN start_res.flow_id ELSE None,
     flow_instance_id |-> IF SavedRun THEN start_res.flow_instance_id ELSE None,
     service_instance |-> IF SavedRun THEN args.service_instance ELSE None]

NoSummary ==
    [nocreds |-> FALSE, clean |-> FALSE, saved |-> FALSE, flow_id |-> None,
     flow_instance_id |-> None, service_instance |-> None]

\* the state files a user may start from
InitDicts ==
    {EmptyDict,
     [k \in {"project"} |-> PyStr(<<"kf">>)],
     [k \in {"author_email"} |-> PyStr(<<"a@x">>)],
     [k \in {"author_email", "project"} |->
        IF k = "project" THEN PyStr(<<"kf">>) ELSE None],
     [k \in {"flow_id", "flow_instance_id", "service_instance", "project"} |->
        CASE k = "flow_id" -> PyStr(<<"F2">>)
          [] k = "flow_instance_id" -> PyStr(<<"I2">>)
          [] k = "service_instance" -> PyStr(<<"prod">>)
          [] OTHER -> PyStr(<<"kf">>)],
     [k \in {"flow_id", "author_email"} |->
        IF k = "flow_id" THEN PyStr(<<"F2">>) ELSE PyStr(<<"b@y">>)]}

InitFiles ==
    {MissingFile, TextFile(<<>>), TextFile(<<LBrace, KeyTok("flow_id")>>)}
        \cup {TextFile(Dump(d)) : d \in InitDicts}

Init ==
    /\ file \in InitFiles
    /\ creds \in BOOLEAN
    /\ stdin = "sys.stdin"
    /\ stdout = "sys.stdout"
    /\ pc = "idle"
    /\ cmd = "none"
    /\ args = NoArgs
    /\ state = EmptyDict
    /\ author_email = None
    /\ save_email = FALSE
    /\ flow_id = None
    /\ flow_instance_id = None
    /\ service_instance = None
    /\ bound = {}
    /\ start_res = NoResult
    /\ written = 0
    /\ caught = NoExc
    /\ raised = NoExc
    /\ out = <<>>
    /\ calls = <<>>
    /\ prompts = 0
    /\ opens = 0
    /\ file0 = file
    /\ loaded = EmptyDict
    /\ prev = NoSummary
    /\ other = None

\* a new process starts: fresh locals, nothing printed or called yet
Begin(c, a) ==
    /\ pc = "idle"
    /\ cmd' = c
    /\ args' = a
    /\ file0' = file
    /\ prev' = Summary
    /\ other' = None
    /\ opens' = 0

\* --------------------------------------------------------------------- run
\* the email put in `state` whatever save_email is
SaveEmailInState_Always(st, se, ae) == SetItem(st, "author_email", ae)

\* lines 94-95: if save_email: state["author_email"] = author_email
SaveEmailInState(st, se, ae) == IF se THEN SetItem(st, "author_email", ae) ELSE st

\* the state saved on a dry run too
ShouldPersist_IgnoreDryRun(success, dry_run) == success

\* the state saved when the flow did not start
ShouldPersist_IgnoreSuccess(success, dry_run) == ~dry_run

\* the state saved whatever happened
ShouldPersist_Always(success, dry_run) == TRUE

\* lines 116-120: the state is updated and saved when success and not dry_run
ShouldPersist(success, dry_run) == success /\ ~dry_run

\* lines 44-54: load the saved parameters
RunLoad ==
    \E ae \in {None} \cup {PyStr(e) : e \in Emails}, dr \in BOOLEAN,
       si \in ServiceInstances :
        /\ Begin("run", [NoArgs EXCEPT !.author_email = ae, !.dry_run = dr,
                                       !.service_instance = si])
        /\ author_email' = ae
        /\ save_email' = FALSE
        /\ bound' = {}
        /\ start_res' = NoResult
        /\ written' = 0
        /\ flow_id' = None
        /\ flow_instance_id' = None
        /\ service_instance' = None
        /\ calls' = <<>>
        /\ prompts' = 0
        /\ UNCHANGED envVars
        /\ IF ~file.exists
           THEN \* open raises FileNotFoundError, caught at line 51
                /\ state' = EmptyDict
                /\ caught' = FileNotFoundError
                /\ raised' = NoExc
                /\ pc' = "run_email"
           ELSE IF Parses(file.text)
           THEN /\ state' = Load(file.text)
                /\ caught' = NoExc
                /\ raised' = NoExc
                /\ pc' = "run_email"
           ELSE \* json.load raises JSONDecodeError: no except clause takes it
                /\ state' = EmptyDict
                /\ caught' = NoExc
                /\ raised' = JSONDecodeError
                /\ pc' = "idle"
        /\ out' = <<>>
        /\ loaded' = state'

\* lines 69-99: determine author_email and save_email
RunResolveEmail ==
    /\ pc = "run_email"
    /\ LET state_email == Get(state, "author_email")
           \* line 94 with the locals as the branches left them
           finish(ae, se, bnd, printed, asked) ==
               /\ author_email' = ae
               /\ save_email' = se
               /\ bound' = bnd
               /\ prompts' = prompts + asked
               /\ IF "save_email" \notin bnd
                  THEN /\ raised' = UnboundLocalError("save_email")
                       /\ out' = out \o printed
                       /\ state' = state
                       /\ pc' = "idle"
                  ELSE /\ raised' = raised
                       /\ state' = SaveEmailInState(state, se, ae)
                       /\ out' = out \o printed
                       /\ pc' = "run_submit"
       IN  IF author_email # None /\ state_email # None /\ state_email # author_email
           THEN \E answer \in Answers :
                   finish(author_email, IsYes(answer), bound \cup {"save_email"},
                          <<>>, 1)
           ELSE IF author_email = None /\ state_email # None
           THEN finish(state_email, FALSE, bound \cup {"save_email"},
                       <<"Using saved email">>, 0)
           ELSE IF author_email = None /\ state_email = None
           THEN \E typed \in TypedEmails, answer \in Answers :
                   finish(PyStr(Strip(typed)), IsYes(answer), bound \cup {"save_email"},
                          <<>>, 2)
           ELSE finish(author_email, save_email, bound, <<>>, 0)
    /\ UNCHANGED <<envVars, cmd, args, statusLocals, start_res, written, caught, calls,
                   opens, histVars>>

\* lines 101-131: construct the client, start the flow, update `state`
RunSubmit ==
    /\ pc = "run_submit"
    /\ LET construct == Call("CfdeClient", args.service_instance, None)
           start == Call("start_deriva_flow", author_email, None)
       IN
        \/ \* CfdeClient(...) raises
           \E e \in RemoteErrors :
              /\ caught' = e
              /\ calls' = calls \o <<construct>>
              /\ out' = out \o <<"Error while starting Flow">>
              /\ pc' = "idle"
              /\ UNCHANGED <<creds, state, start_res>>
        \/ \* start_deriva_flow(...) raises
           \E e \in RemoteErrors :
              /\ caught' = e
              /\ creds' = TRUE
              /\ calls' = calls \o <<construct, start>>
              /\ out' = out \o <<"Error while starting Flow">>
              /\ pc' = "idle"
              /\ UNCHANGED <<state, start_res>>
        \/ \* success is false
           /\ start_res' = FailedResult
           /\ creds' = TRUE
           /\ calls' = calls \o <<construct, start>>
           /\ out' = out \o <<"Error during Flow startup">>
           /\ pc' = IF ShouldPersist(FailedResult.success, args.dry_run)
                    THEN "run_open" ELSE "idle"
           /\ UNCHANGED <<state, caught>>
        \/ \* success on a dry run
           /\ ~ShouldPersist(TRUE, args.dry_run)
           /\ start_res' = DryRunResult
           /\ creds' = TRUE
           /\ calls' = calls \o <<construct, start>>
           /\ out' = out \o <<"message">>
           /\ pc' = "idle"
           /\ UNCHANGED <<state, caught>>
        \/ \* success, the flow was started
           \E r \in Results :
              LET dest_path == r.fair_re_dest_path
                  dir_path == Dirname(dest_path)
                  http_link == HttpLink(dest_path)
                  globus_web_link == GlobusWebLink(dir_path)
                  s1 == SetItem(state, "service_instance", args.service_instance)
                  s2 == SetItem(s1, "flow_id", StartedResult(r).flow_id)
                  s3 == SetItem(s2, "flow_instance_id", StartedResult(r).flow_instance_id)
                  s4 == SetItem(s3, "http_link", PyStr(http_link))
                  s5 == SetItem(s4, "globus_web_link", PyStr(globus_web_link))
              IN  /\ ShouldPersist(TRUE, args.dry_run)
                  /\ start_res' = StartedResult(r)
                  /\ creds' = TRUE
                  /\ calls' = calls \o <<construct, start>>
                  /\ out' = out \o <<"message">>
                  /\ state' = s5
                  /\ pc' = "run_open"
                  /\ UNCHANGED caught
    /\ UNCHANGED <<file, stdin, stdout, cmd, args, author_email, save_email, statusLocals,
                   bound, written, raised, prompts, opens, histVars>>

\* line 132: open(client_state_file, 'w') truncates (or creates) the file
RunSaveOpen ==
    /\ pc = "run_open"
    /\ file' = TextFile(<<>>)
    /\ opens' = opens + 1
    /\ written' = 0
    /\ pc' = "run_write"
    /\ UNCHANGED <<creds, stdin, stdout, cmd, args, state, author_email, save_email,
                   statusLocals, bound, start_res, caught, raised, out, calls, prompts,
                   histVars>>

\* line 133: json.dump writes the next chunk
RunSaveWrite ==
    /\ pc = "run_write"
    /\ written < Len(Dump(state))
    /\ file' = TextFile(Append(file.text, Dump(state)[written + 1]))
    /\ written' = written + 1
    /\ UNCHANGED <<creds, stdin, stdout, pc, cmd, args, state, author_email, save_email,
                   statusLocals, bound, start_res, caught, raised, out, calls, prompts,
                   opens, histVars>>

\* lines 133-139: the dump is complete, the file is closed, the links are printed
RunSaveClose ==
    /\ pc = "run_write"
    /\ written = Len(Dump(state))
    /\ out' = out \o <<"The BDBag with your data is available through Globus",
                     "You BDBag is also available via direct HTTP download">>
    /\ pc' = "idle"
    /\ UNCHANGED <<envVars, cmd, args, state, runLocals, statusLocals, bound, caught,
                   raised, calls, prompts, opens, histVars>>

\* ------------------------------------------------------------------ status
\* the test asking for both identifiers to be missing
NotBoth_Neither(f, fi) == ~Truthy(f) /\ ~Truthy(fi)

\* lines 149 and 158: not flow_id or not flow_instance_id
NotBoth(f, fi) == ~Truthy(f) \/ ~Truthy(fi)

\* a command other than run starts: run's locals are not in use
FreshLocals ==
    /\ author_email' = None
    /\ save_email' = FALSE
    /\ start_res' = NoResult
    /\ written' = 0
    /\ prompts' = 0
    /\ loaded' = EmptyDict

\* lines 147-162: resolve flow_id and flow_instance_id
StatusResolve ==
    \E fid \in FlowIdOptions, fiid \in FlowInstanceIdOptions, rw \in BOOLEAN :
        /\ Begin("status", [NoArgs EXCEPT !.flow_id = fid, !.flow_instance_id = fiid,
                                          !.raw = rw])
        /\ FreshLocals
        /\ calls' = <<>>
        /\ UNCHANGED envVars
        /\ IF ~NotBoth(fid, fiid)
           THEN \* line 149 is false: the file is not read
                /\ flow_id' = fid
                /\ flow_instance_id' = fiid
                /\ service_instance' = None
                /\ bound' = {}
                /\ state' = EmptyDict
                /\ caught' = NoExc
                /\ raised' = NoExc
                /\ out' = <<>>
                /\ pc' = "status_query"
           ELSE IF ~file.exists \/ ~Parses(file.text)
           THEN \* open raises FileNotFoundError, or json.load raises JSONDecodeError:
                \* line 160 catches FileNotFoundError and every ValueError
                LET e == IF ~file.exists THEN FileNotFoundError ELSE JSONDecodeError
                    handled == e = FileNotFoundError \/ IsValueError(e)
                IN  /\ flow_id' = fid
                    /\ flow_instance_id' = fiid
                    /\ service_instance' = None
                    /\ bound' = {}
                    /\ state' = EmptyDict
                    /\ caught' = IF handled THEN e ELSE NoExc
                    /\ raised' = IF handled THEN NoExc ELSE e
                    /\ out' = IF handled
                              THEN <<"Flow not started and flow-id or flow-instance-id not specified">>
                              ELSE <<>>
                    /\ pc' = "idle"
           ELSE LET client_state == Load(file.text)
                    f == PyOr(fid, Get(client_state, "flow_id"))
                    fi == PyOr(fiid, Get(client_state, "flow_instance_id"))
                IN  /\ state' = client_state
                    /\ flow_id' = f
                    /\ flow_instance_id' = fi
                    /\ service_instance' = Get(client_state, "service_instance")
                    /\ bound' = {"service_instance"}
                    /\ raised' = NoExc
                    /\ IF NotBoth(f, fi)
                       THEN \* line 159 raises ValueError, caught at line 160
                            /\ caught' = NoFlowError
                            /\ out' = <<"Flow not started and flow-id or flow-instance-id not specified">>
                            /\ pc' = "idle"
                       ELSE /\ caught' = NoExc
                            /\ out' = <<>>
                            /\ pc' = "status_query"

\* lines 163-177: construct the client, check the status, print it
StatusQuery ==
    /\ pc = "status_query"
    /\ LET construct == Call("CfdeClient", service_instance, None)
           check == Call("check_status", flow_id, flow_instance_id)
       IN
        \/ \* line 164 reads service_instance before it was assigned
           /\ "service_instance" \notin bound
           /\ caught' = UnboundLocalError("service_instance")
           /\ out' = out \o <<"Error checking status for Flow">>
           /\ UNCHANGED <<creds, calls>>
        \/ \* CfdeClient(...) raises
           \E e \in RemoteErrors :
              /\ "service_instance" \in bound
              /\ caught' = e
              /\ calls' = calls \o <<construct>>
              /\ out' = out \o <<"Error checking status for Flow">>
              /\ UNCHANGED creds
        \/ \* check_status(...) raises
           \E e \in RemoteErrors :
              /\ "service_instance" \in bound
              /\ caught' = e
              /\ creds' = TRUE
              /\ calls' = calls \o <<construct, check>>
              /\ out' = out \o <<"Error checking status for Flow">>
        \/ \* check_status(...) returns
           /\ "service_instance" \in bound
           /\ creds' = TRUE
           /\ calls' = calls \o <<construct, check>>
           /\ out' = out \o <<IF args.raw THEN "json.dumps(status_res)" ELSE "clean_status">>
           /\ UNCHANGED caught
    /\ pc' = "idle"
    /\ UNCHANGED <<file, stdin, stdout, cmd, args, state, runLocals, statusLocals, bound,
                   raised, prompts, opens, histVars>>

\* ------------------------------------------------------------------- login
\* lines 183-189
Login ==
    /\ Begin("login", NoArgs)
    /\ FreshLocals
    /\ state' = EmptyDict
    /\ flow_id' = None
    /\ flow_instance_id' = None
    /\ service_instance' = None
    /\ bound' = {}
    /\ pc' = "idle"
    /\ caught' = NoExc
    /\ calls' = <<Call("CfdeClient", None, None)>>
    /\ UNCHANGED <<file, stdin, stdout>>
    /\ \/ \* the client is constructed: the tokens are cached
          /\ creds' = TRUE
          /\ raised' = NoExc
          /\ out' = <<"Starting login check",
                      "You are authenticated and your tokens have been cached.">>
       \/ \* CfdeClient(...) raises: nothing catches it
          \E e \in RemoteErrors :
             /\ creds' = creds
             /\ raised' = e
             /\ out' = <<"Starting login check">>

\* ------------------------------------------------------------------ logout
\* lines 195-210: replace stdin by StringIO("\n") and stdout by the open devnull
LogoutBegin ==
    /\ Begin("logout", NoArgs)
    /\ FreshLocals
    /\ state' = EmptyDict
    /\ flow_id' = None
    /\ flow_instance_id' = None
    /\ service_instance' = None
    /\ bound' = {}
    /\ calls' = <<>>
    /\ caught' = NoExc
    /\ raised' = NoExc
    /\ out' = <<"Logging out and revoking tokens">>
    /\ stdin' = "StringIO"
    /\ stdout' = "devnull"
    /\ pc' = "logout_construct"
    /\ UNCHANGED <<file, creds>>

\* line 211, then the end of the `with` block, which closes new_stdout
LogoutConstruct ==
    /\ pc = "logout_construct"
    /\ calls' = calls \o <<Call("CfdeClient", None, None)>>
    /\ stdout' = "devnull (closed)"
    /\ \/ \* the cached tokens are valid: no auth step
          /\ creds
          /\ pc' = "logout_revoke"
          /\ UNCHANGED caught
       \/ \* no valid tokens: the auth flow reads the blank line and raises
          /\ ~creds
          /\ caught' = InvalidGrant
          /\ pc' = "logout_finally"
       \/ \* anything else goes wrong
          \E e \in RemoteErrors \ {InvalidGrant} :
             /\ caught' = e
             /\ pc' = "logout_finally"
    /\ UNCHANGED <<file, creds, stdin, cmd, args, state, runLocals, statusLocals, bound,
                   raised, out, prompts, opens, histVars>>

\* line 213: client.logout()
LogoutRevoke ==
    /\ pc = "logout_revoke"
    /\ calls' = calls \o <<Call("logout", None, None)>>
    /\ pc' = "logout_finally"
    /\ \/ \* the tokens are revoked, nothing is printed
          /\ creds' = FALSE
          /\ UNCHANGED caught
       \/ \* the client prints: sys.stdout is the closed file
          /\ creds' \in {creds, FALSE}
          /\ caught' = ClosedFileError
       \/ \* the revocation fails
          \E e \in RemoteErrors :
             /\ creds' = creds
             /\ caught' = e
    /\ UNCHANGED <<file, stdin, stdout, cmd, args, state, runLocals, statusLocals, bound,
                   raised, out, prompts, opens, histVars>>

\* the finally clause restoring sys.stdout only
LogoutFinally_StdoutOnly ==
    /\ pc = "logout_finally"
    /\ stdout' = "sys.stdout"
    /\ pc' = "logout_end"
    /\ UNCHANGED <<file, creds, stdin, cmd, args, state, runLocals, statusLocals, bound,
                   caught, raised, out, calls, prompts, opens, histVars>>

\* lines 222-224: the finally clause restores the streams
LogoutFinally ==
    /\ pc = "logout_finally"
    /\ stdout' = "sys.stdout"
    /\ stdin' = "sys.stdin"
    /\ pc' = "logout_end"
    /\ UNCHANGED <<file, creds, cmd, args, state, runLocals, statusLocals, bound, caught,
                   raised, out, calls, prompts, opens, histVars>>

\* lines 214-221 and 225: an invalid grant was eaten, anything else is re-raised
LogoutEnd ==
    /\ pc = "logout_end"
    /\ IF caught = NoExc \/ IsInvalidGrant(caught)
       THEN /\ out' = out \o <<"You are logged out.">>
            /\ raised' = raised
       ELSE /\ out' = out
            /\ raised' = caught
    /\ pc' = "idle"
    /\ UNCHANGED <<envVars, cmd, args, state, runLocals, statusLocals, bound, caught,
                   calls, prompts, opens, histVars>>

\* --------------------------------------------------------------- interrupt
\* the process is interrupted (KeyboardInterrupt, kill) wherever it is
Interrupt ==
    /\ pc # "idle"
    /\ pc' = "idle"
    /\ raised' = KeyboardInterrupt
    /\ stdin' = "sys.stdin"
    /\ stdout' = "sys.stdout"
    /\ UNCHANGED <<file, creds, cmd, args, state, runLocals, statusLocals, bound, caught,
                   out, calls, prompts, opens, histVars>>

\* ------------------------------------------------------ another invocation
\* Another `run` process on the same state file loads it, starts a flow and
\* saves (lines 44-133, with save_email true and no --service-instance) while
\* this run is between its load and its save.
OtherRunSaves ==
    /\ cmd = "run"
    /\ pc \in {"run_submit", "run_open"}
    /\ other = None
    /\ ~file.exists \/ Parses(file.text)
    /\ \E e \in Emails, r \in Results :
          LET s0 == IF file.exists THEN Load(file.text) ELSE EmptyDict
              s1 == SaveEmailInState(s0, TRUE, PyStr(e))
              s2 == SetItem(s1, "service_instance", None)
              s3 == SetItem(s2, "flow_id", StartedResult(r).flow_id)
              s4 == SetItem(s3, "flow_instance_id", StartedResult(r).flow_instance_id)
              s5 == SetItem(s4, "http_link", PyStr(HttpLink(r.fair_re_dest_path)))
              s6 == SetItem(s5, "globus_web_link",
                            PyStr(GlobusWebLink(Dirname(r.fair_re_dest_path))))
          IN  /\ file' = TextFile(Dump(s6))
              /\ other' = PyStr(e)
    /\ UNCHANGED <<creds, stdin, stdout, pc, cmd, args, state, runLocals, statusLocals,
                   bound, caught, raised, out, calls, prompts, opens, file0, loaded, prev>>

Next ==
    \/ RunLoad
    \/ RunResolveEmail
    \/ RunSubmit
    \/ RunSaveOpen
    \/ RunSaveWrite
    \/ RunSaveClose
    \/ StatusResolve
    \/ StatusQuery
    \/ Login
    \/ LogoutBegin
    \/ LogoutConstruct
    \/ LogoutRevoke
    \/ LogoutFinally
    \/ LogoutEnd

Spec == Init /\ [][Next]_vars

\* the same program when the process may be interrupted
NextCrash == Next \/ Interrupt
SpecCrash == Init /\ [][NextCrash]_vars

\* the same program when another invocation works on the same state file
NextConc == Next \/ OtherRunSaves
SpecConc == Init /\ [][NextConc]_vars

\* ================================================================== claims
NoFlowLine == "Flow not started and flow-id or flow-instance-id not specified"

\* the record a state file holds (nothing when it is missing or does not parse)
Readable(f) == f.exists /\ Parses(f.text)
Persisted(f) == IF Readable(f) THEN Load(f.text) ELSE EmptyDict
Malformed(f) == f.exists /\ ~Parses(f.text)

\* a field of the state file: whether it is there, and its value
Field(f, k) ==
    [present |-> k \in DOMAIN Persisted(f), value |-> Get(Persisted(f), k)]

RunEnded == cmd = "run" /\ pc = "idle"
StatusEnded == cmd = "status" /\ pc = "idle"

\* the run command has gone through its email resolution
EmailResolved == cmd = "run" /\ pc # "run_email" /\ raised # JSONDecodeError

\* the fourth row of the decision table: provided, and the saved one equal or absent
FourthRow ==
    /\ args.author_email # None
    /\ Get(loaded, "author_email") \in {None, args.author_email}

\* C1: EmailResolver is total: whatever the provided and the saved email, run
\* gets past the email resolution with save_email defined and without raising;
\* when the email is provided and the saved one is absent or equal, the
\* provided email is used and save_email is false.
C1_EmailResolverTotal ==
    EmailResolved =>
        /\ "save_email" \in bound
        /\ raised = NoExc
        /\ FourthRow => (author_email = args.author_email /\ ~save_email)

\* the fields run writes after a successful submission that is not a dry run
UpdatedFields ==
    {"service_instance", "flow_id", "flow_instance_id", "http_link", "globus_web_link"}
        \cup (IF save_email THEN {"author_email"} ELSE {})

\* run has saved the state file
RunSaved == RunEnded /\ opens > 0

\* C2: merge invariant: after run loaded S and saved, loading the file gives S
\* with exactly the updated fields overwritten (author_email only when
\* save_email) and every other key of S, unknown ones too, as it was.
C2_MergeInvariant ==
    RunSaved =>
        /\ Readable(file)
        /\ LET L == Load(file.text)
               dest_path == start_res.fair_re_dest_path.s
           IN  /\ DOMAIN L = (DOMAIN loaded) \cup UpdatedFields
               /\ \A k \in (DOMAIN loaded) \ UpdatedFields : L[k] = loaded[k]
               /\ L["service_instance"] = args.service_instance
               /\ L["flow_id"] = start_res.flow_id
               /\ L["flow_instance_id"] = start_res.flow_instance_id
               /\ L["http_link"] = PyStr(EP_URL \o dest_path)
               /\ L["globus_web_link"] = PyStr(GlobusWebLink(Dirname(dest_path)))
               /\ save_email => L["author_email"] = author_email

\* C2 witness: a save over a record with an unknown key and a saved flow, the
\* email being saved as well
C2_Witness ==
    /\ RunSaved
    /\ "project" \in DOMAIN loaded
    /\ "flow_id" \in DOMAIN loaded
    /\ save_email

\* C3: the author_email of the state file changes in a run command only when
\* save_email is true, the submission succeeded and it is not a dry run, and it
\* then is the resolved email; otherwise it is left as it was.
C3_EmailSavedOnlyOnSuccess ==
    (RunEnded /\ Field(file, "author_email") # Field(file0, "author_email")) =>
        /\ "save_email" \in bound
        /\ save_email
        /\ start_res.success
        /\ ~args.dry_run
        /\ Field(file, "author_email") = [present |-> TRUE, value |-> author_email]

\* C3 witness: a run that replaced a saved email by another one
C3_Witness ==
    /\ RunEnded
    /\ Field(file0, "author_email").value # None
    /\ Field(file, "author_email").value # None
    /\ Field(file, "author_email") # Field(file0, "author_email")

\* C4: a dry run never opens the state file for writing and leaves its content
\* as it was, whatever the email decision and the remote result.
C4_DryRunNeverSaves ==
    (cmd = "run" /\ args.dry_run) => (opens = 0 /\ file = file0)

\* C4 witness: a successful dry run in which the user asked to save the email
C4_Witness ==
    /\ RunEnded
    /\ args.dry_run
    /\ start_res.success
    /\ save_email
    /\ Readable(file0)

\* status has resolved both identifiers
StatusResolved ==
    /\ cmd = "status"
    /\ pc = "status_query" \/ (pc = "idle" /\ out # <<NoFlowLine>>)

\* the value the precedence rule gives a field
Preferred(explicit, k) ==
    IF Truthy(explicit) THEN explicit ELSE Get(Persisted(file0), k)

\* C5: status takes each of flow_id and flow_instance_id from the option when
\* one (not empty) is given and from the state file only otherwise, and checks
\* the status of exactly those.
C5_StatusPrecedence ==
    StatusResolved =>
        /\ flow_id = Preferred(args.flow_id, "flow_id")
        /\ flow_instance_id = Preferred(args.flow_instance_id, "flow_instance_id")
        /\ \A i \in 1..Len(calls) :
              calls[i].op = "check_status" =>
                  /\ calls[i].a = Preferred(args.flow_id, "flow_id")
                  /\ calls[i].b = Preferred(args.flow_instance_id, "flow_instance_id")

\* C5 witness: --flow-id F1 over a saved F2, the instance taken from the file,
\* and the status checked
C5_Witness ==
    /\ StatusEnded
    /\ args.flow_id = PyStr(<<"F1">>)
    /\ Get(Persisted(file0), "flow_id") = PyStr(<<"F2">>)
    /\ args.flow_instance_id = None
    /\ calls # <<>>
    /\ calls[Len(calls)] = Call("check_status", PyStr(<<"F1">>), PyStr(<<"I2">>))

\* an identifier is missing from the options and from the state file
Unresolvable ==
    /\ cmd = "status"
    /\ ~Malformed(file0)
    /\ \/ ~Truthy(args.flow_id) /\ ~Truthy(Get(Persisted(file0), "flow_id"))
       \/ /\ ~Truthy(args.flow_instance_id)
          /\ ~Truthy(Get(Persisted(file0), "flow_instance_id"))

\* C6: when an identifier is still missing after the fallback to the state file
\* (a missing file included), status prints the "no flow" line and returns:
\* no client is constructed and no remote call is made.
C6_NoFlowToQuery ==
    Unresolvable =>
        /\ pc = "idle"
        /\ out = <<NoFlowLine>>
        /\ calls = <<>>
        /\ raised = NoExc

\* C6 witness: the instance id given, the state file holding a record without
\* a flow_id
C6_Witness ==
    /\ Unresolvable
    /\ Truthy(args.flow_instance_id)
    /\ Readable(file0)
    /\ "author_email" \in DOMAIN Persisted(file0)

\* C7: logout is idempotent: a logout without valid credentials, coming after
\* another one, ends logged out like the first: nothing raised, no revocation
\* call, stdin and stdout restored.
C7_LogoutIdempotent ==
    (pc = "idle" /\ NoCredentialLogout) =>
        /\ LoggedOutClean
        /\ prev.nocreds => prev.clean

\* C7 witness: two logouts in succession, both without credentials
C7_Witness ==
    /\ pc = "idle"
    /\ NoCredentialLogout
    /\ prev.nocreds
    /\ prev.clean
    /\ LoggedOutClean

\* the end-to-end case: no state file, no --author-email, the flow started with
\* F9, I9 and /public/bag.zip
EndToEnd ==
    /\ RunEnded
    /\ ~file0.exists
    /\ args.author_email = None
    /\ ~args.dry_run
    /\ start_res = StartedResult(ResultPool[1])

EndToEndFlow ==
    /\ Readable(file)
    /\ Get(Persisted(file), "flow_id") = PyStr(<<"F9">>)
    /\ Get(Persisted(file), "flow_instance_id") = PyStr(<<"I9">>)
    /\ EndsWith(Get(Persisted(file), "http_link").s, <<"/", "public", "/", "bag.zip">>)

\* C8 as stated: the end-to-end run leaves a state file with flow_id F9,
\* flow_instance_id I9, an http_link ending in /public/bag.zip and the email
\* the user entered.
C8_Original ==
    EndToEnd =>
        /\ EndToEndFlow
        /\ Field(file, "author_email") = [present |-> TRUE, value |-> author_email]

\* C8 amended: the end-to-end run leaves a state file with flow_id F9,
\* flow_instance_id I9, an http_link ending in /public/bag.zip, and the email
\* the user entered when the user answered yes to saving it (no author_email
\* when the answer was anything else).
C8_EndToEnd ==
    EndToEnd =>
        /\ EndToEndFlow
        /\ Field(file, "author_email") =
              IF save_email THEN [present |-> TRUE, value |-> author_email]
              ELSE [present |-> FALSE, value |-> None]

\* C8 witness: the end-to-end run with the email saved
C8_Witness ==
    /\ EndToEnd
    /\ save_email
    /\ author_email = PyStr(<<"a@x">>)
    /\ opens = 1

\* the command read (or tried to read) the state file
ReadsStateFile ==
    \/ cmd = "run"
    \/ cmd = "status" /\ (~Truthy(args.flow_id) \/ ~Truthy(args.flow_instance_id))

\* C9: a state file that does not parse is a fatal parse error in every command
\* that loads it: run and status end with the parse error raised, and do not
\* report anything else.
C9_MalformedIsFatal ==
    (pc = "idle" /\ ReadsStateFile /\ Malformed(file0)) =>
        /\ raised = JSONDecodeError
        /\ out = <<>>

\* C10: the write of the state file is atomic: however run ends, the file
\* holds either what it held before or the complete new record.
C10_AtomicWrite ==
    RunEnded =>
        \/ file = file0
        \/ Readable(file) /\ Load(file.text) = state

\* the calls of one operation this invocation made
CallsOf(op) == {i \in 1..Len(calls) : calls[i].op = op}

\* the error lines this invocation printed
ErrorLineSet ==
    {"Error while starting Flow", "Error during Flow startup",
     "Error checking status for Flow", NoFlowLine}
ErrorLines == {i \in 1..Len(out) : out[i] \in ErrorLineSet}

\* the submission of this run failed: the client or the call raised, or the
\* result says success is false
SubmissionFailed ==
    /\ RunEnded
    /\ \/ caught \in RemoteErrors
       \/ CallsOf("start_deriva_flow") # {} /\ ~start_res.success

\* C11: a failed submission is terminal and soft: when the client construction
\* or the call raises, or the result has success false, run prints one error
\* line and returns normally, makes no second submission call and leaves the
\* state file as it was.
C11_SubmissionFailureIsSoft ==
    (cmd = "run" /\ (caught \in RemoteErrors
                      \/ (CallsOf("start_deriva_flow") # {} /\ ~start_res.success))) =>
        /\ pc = "idle"
        /\ raised = NoExc
        /\ Cardinality(ErrorLines) = 1
        /\ out[Len(out)] \in ErrorLineSet
        /\ Cardinality(CallsOf("start_deriva_flow")) <= 1
        /\ opens = 0
        /\ file = file0

\* C11 witness: success false on a run that is not a dry run, the user having
\* asked to save the email
C11_Witness ==
    /\ SubmissionFailed
    /\ start_res = FailedResult
    /\ ~args.dry_run
    /\ save_email
    /\ Readable(file0)

\* status ended after both identifiers were resolved
ResolvedStatusEnded == StatusEnded /\ out # <<NoFlowLine>>

\* C12: whenever status resolves both identifiers it calls check_status exactly
\* once with them and prints that call's result (unless the remote client itself
\* raised); it never ends in an error line without the remote client having
\* been called.
C12_ResolvedStatusIsQueried ==
    ResolvedStatusEnded =>
        /\ CallsOf("CfdeClient") # {}
        /\ caught \notin RemoteErrors =>
              /\ Cardinality(CallsOf("check_status")) = 1
              /\ calls[Len(calls)] = Call("check_status", flow_id, flow_instance_id)
              /\ out = <<IF args.raw THEN "json.dumps(status_res)" ELSE "clean_status">>

\* logout is past its finally clause
LogoutLeaving == cmd = "logout" /\ pc \in {"logout_end", "idle"}

StreamsRestored == stdin = "sys.stdin" /\ stdout = "sys.stdout"

\* C13: logout restores sys.stdin and sys.stdout on every exit path: after the
\* revocation, after an eaten invalid grant, and before any other exception
\* leaves the command; outside logout the streams are never replaced.
C13_StreamsRestored ==
    /\ LogoutLeaving => StreamsRestored
    /\ cmd # "logout" => StreamsRestored

\* C13 witness: an exception that is not an invalid grant is about to leave
\* logout, the streams already restored
C13_Witness ==
    /\ cmd = "logout"
    /\ pc = "logout_end"
    /\ caught = ServerError
    /\ StreamsRestored

LogoutEnded == cmd = "logout" /\ pc = "idle"
LoggedOutPrinted == \E i \in 1..Len(out) : out[i] = "You are logged out."

\* C14: in logout only the invalid grant condition is absorbed: any other
\* exception of the client construction or of client.logout leaves the command,
\* after the streams were restored and without the "You are logged out." line;
\* the line is printed exactly when client.logout returned normally or an
\* invalid grant was absorbed.
C14_OnlyInvalidGrantAbsorbed ==
    /\ LogoutEnded =>
          IF caught \in {NoExc, InvalidGrant}
          THEN /\ raised = NoExc
               /\ out[Len(out)] = "You are logged out."
          ELSE /\ raised = caught
               /\ ~LoggedOutPrinted
    /\ (cmd = "logout" /\ raised # NoExc) => StreamsRestored
    /\ (cmd = "logout" /\ pc # "idle") => (raised = NoExc /\ ~LoggedOutPrinted)

\* C14 witness: client.logout raised something that is not an invalid grant
C14_Witness ==
    /\ LogoutEnded
    /\ CallsOf("logout") # {}
    /\ raised = ServerError
    /\ ~LoggedOutPrinted

\* C15: save layers the new values onto a freshly read copy of the file: an
\* author_email another invocation wrote between this run's load and its save
\* is still in the file after the save when this run does not save an email.
C15_SaveKeepsConcurrentWrite ==
    (RunSaved /\ other # None /\ ~save_email) =>
        Field(file, "author_email") = [present |-> TRUE, value |-> other]

\* the email saved in the record run loaded (null counts as none)
SavedEmail == Get(loaded, "author_email")

\* C16: the user is asked for input exactly when no email is provided and none
\* is saved, or when the provided email differs from the saved one; with none
\* provided and one saved the saved one is used, save_email is false and
\* nothing is asked; with the provided email equal to the saved one save_email
\* is false and nothing is asked.
C16_PromptsExactlyInTwoCases ==
    EmailResolved =>
        /\ prompts > 0 <=>
              \/ args.author_email = None /\ SavedEmail = None
              \/ /\ args.author_email # None
                 /\ SavedEmail # None
                 /\ SavedEmail # args.author_email
        /\ (args.author_email = None /\ SavedEmail # None) =>
              /\ author_email = SavedEmail
              /\ "save_email" \in bound /\ ~save_email
              /\ prompts = 0
        /\ (args.author_email # None /\ SavedEmail = args.author_email) =>
              /\ "save_email" \in bound /\ ~save_email
              /\ prompts = 0

\* C17: while logout has sys.stdout replaced and the client is at work, sys.stdout
\* is the open sink: when client.logout runs it is not a closed file.
C17_StdoutIsOpenSink ==
    (cmd = "logout" /\ pc \in {"logout_construct", "logout_revoke"}) =>
        stdout = "devnull"

\* C18: continuity through the state file: the command after a run that started
\* flow F, instance I with --service-instance V (or none) finds V as the saved
\* service_instance, whatever was saved before; a status without identifiers
\* builds its client with V and checks the status of exactly (F, I).
C18_RunThenStatus ==
    prev.saved =>
        /\ Field(file0, "service_instance") =
              [present |-> TRUE, value |-> prev.service_instance]
        /\ (cmd = "status" /\ args.flow_id = None /\ args.flow_instance_id = None) =>
              /\ flow_id = prev.flow_id
              /\ flow_instance_id = prev.flow_instance_id
              /\ service_instance = prev.service_instance
              /\ "service_instance" \in bound
              /\ out # <<NoFlowLine>>
              /\ \A i \in CallsOf("CfdeClient") : calls[i].a = prev.service_instance
              /\ \A i \in CallsOf("check_status") :
                    calls[i] = Call("check_status", prev.flow_id, prev.flow_instance_id)
              /\ (pc = "idle" /\ caught = NoExc) => CallsOf("check_status") # {}

\* C18 witness: the run gave no --service-instance, the status after it was
\* checked for the flow of that run
C18_Witness ==
    /\ StatusEnded
    /\ prev.saved
    /\ prev.service_instance = None
    /\ args.flow_id = None /\ args.flow_instance_id = None
    /\ calls = <<Call("CfdeClient", None, None),
                 Call("check_status", PyStr(<<"F9">>), PyStr(<<"I9">>))>>

\* C19: the state file has one writer: status, login and logout never write it;
\* run opens it for writing at most once, and only after the submission
\* returned success with dry_run false.
C19_SingleWriter ==
    /\ cmd \in {"status", "login", "logout", "none"} => (opens = 0 /\ file = file0)
    /\ cmd = "run" =>
          /\ opens <= 1
          /\ opens = 0 => file = file0
          /\ opens = 1 =>
                /\ start_res.success
                /\ ~args.dry_run
                /\ CallsOf("start_deriva_flow") # {}

\* C19 witness: a run that wrote the state file once
C19_Witness ==
    /\ RunEnded
    /\ opens = 1
    /\ file # file0
    /\ start_res.success
====
